---- MODULE Spec2Model ----
(***************************************************************************)
(* Model of vegancity/models.py: the Vendor and Review managers            *)
(* (pending_approval, address_search, search) and Vendor.save with its     *)
(* geocoding step.                                                         *)
(*                                                                         *)
(* Python's None is the empty tuple <<>> and a present value x is <<x>>.   *)
(* A queryset is the sequence of primary keys it yields, in Meta.ordering  *)
(* ('created',), which is primary-key order because rows are only ever     *)
(* appended.  Coordinates are points of a planar grid whose step is a      *)
(* quarter of a mile; distances are fixed-point meters with three decimal  *)
(* places, so that 0.75 miles (1207.008 m) is represented exactly.         *)
(***************************************************************************)
EXTENDS Integers, Sequences, FiniteSets, TLC

\* ------------------------------------------------------------------ bounds
MaxVendors == 2

MaxReviews == 2

MaxLog == 1

\* ------------------------------------------------------------ Python values
None == <<>>

Some(x) == <<x>>

\* Python truthiness of an optional number: None and 0.0 are false.
TruthyNumber(o) == o # None /\ o[1] # 0

\* Python truthiness of an optional object or string: None is false.
TruthyObject(o) == o # None

\* ---------------------------------------------------- the geocode module
\* Free-text addresses the model draws from: the ones vendors are given
\* and the ones searched for.  "bad" cannot be resolved.
VendorAddresses == {"a0", "a1", "bad"}

QueryAddresses == {"q1", "q2", "q3", "bad"}

GridPerMile == 4

ThousandthsOfMeterPerMile == 1609344

MaxSquare == 200

\* RootHundredths[n] = floor(100 * sqrt(n))
RootHundredths ==
  [n \in 0..MaxSquare |->
     CHOOSE r \in 0..1500 : r * r <= n * 10000 /\ (r + 1) * (r + 1) > n * 10000]

GeocodeFailure ==
  [ok |-> FALSE, latitude |-> 0, longitude |-> 0, neighborhood |-> None]

Located(lat, lng, hood) ==
  [ok |-> TRUE, latitude |-> lat, longitude |-> lng, neighborhood |-> hood]

\* geocode.geocode_address: (latitude, longitude, neighborhood) of a
\* free-text address, or a GeocodeError (ok = FALSE).
geocode_address(address) ==
  IF address = None THEN GeocodeFailure
  ELSE CASE address[1] = "a0" -> Located(0, 0, None)
         [] address[1] = "a1" -> Located(3, 2, Some("N1"))
         [] address[1] = "q1" -> Located(3, -1, Some("N1"))
         [] address[1] = "q2" -> Located(2, 1, None)
         [] address[1] = "q3" -> Located(5, 2, None)
         [] OTHER -> GeocodeFailure

\* geocode.bounding_box_offsets: (lat_flr, lat_ceil, lng_flr, lng_ceil)
\* of the square that contains the disk of the given radius around point.
bounding_box_offsets(point, miles) ==
  LET off == (miles.num * GridPerMile) \div miles.den
  IN  <<point[1] - off, point[1] + off, point[2] - off, point[2] + off>>

\* Distance between two grid points, in thousandths of a meter.
Meters(a, b) ==
  LET dlat == a[1] - b[1]
      dlng == a[2] - b[2]
  IN  (RootHundredths[dlat * dlat + dlng * dlng]
         * (ThousandthsOfMeterPerMile \div GridPerMile)) \div 100

\* geocode.distances: one item per destination point; the second element
\* of an item is the distance in meters.
distances(point_a, points) ==
  [i \in 1..Len(points) |-> <<points[i], Meters(point_a, points[i])>>]

\* geocode.meters_to_miles, as an exact fraction of a mile.
meters_to_miles(m) == [num |-> m, den |-> ThousandthsOfMeterPerMile]

\* The 0.75 of address_search.
SearchRadius == [num |-> 3, den |-> 4]

\* x <= y on fractions with positive denominators.
FracLeq(x, y) == x.num * y.den <= y.num * x.den

FracLess(x, y) == x.num * y.den < y.num * x.den

\* ------------------------------------------------------------------ state
VARIABLES
  vendors,        \* the Vendor table: sequence of rows, pk = index
  neighborhoods,  \* the Neighborhood table: set of names
  reviews,        \* the Review table: sequence of rows, pk = index
  logged,         \* number of rows tracking.log_query has written
  last            \* the last call made and what it gave back

vars == <<vendors, neighborhoods, reviews, logged, last>>

NoLast ==
  [op |-> "none", model |-> "", manager |-> "", pk |-> 0,
   address |-> None, query |-> None, pool |-> None,
   status |-> "", error |-> "", vendors |-> <<>>, pending |-> {},
   inbox |-> <<>>, sorted |-> <<>>, orig |-> None, geocoded |-> FALSE,
   geo |-> GeocodeFailure, logRaised |-> FALSE]

Managers == {"objects", "approved_objects"}

Init ==
  /\ vendors = <<>>
  /\ neighborhoods = {}
  /\ reviews = <<>>
  /\ logged = 0
  /\ last = NoLast

\* ----------------------------------------------------------------- Vendor
\* A Vendor instance before its first save (field defaults).
NewVendor ==
  [address |-> None, latitude |-> None, longitude |-> None,
   neighborhood |-> None, approved |-> FALSE]

\* Vendor.needs_geocoding
needs_geocoding(self) ==
  IF TruthyNumber(self.latitude) \/ TruthyNumber(self.longitude)
       \/ TruthyObject(self.neighborhood)
  THEN FALSE
  ELSE IF ~TruthyObject(self.address) THEN FALSE
  ELSE TRUE

\* Vendor.apply_geocoding with apply_geocoding's assignments dropped for
\* longitude (used to test that the pairing invariant depends on them).
apply_geocoding_LatitudeOnly(self, geo) ==
  [self EXCEPT !.neighborhood = IF TruthyObject(geo.neighborhood)
                                THEN geo.neighborhood ELSE @,
               !.latitude = Some(geo.latitude)]

\* Vendor.apply_geocoding, given the geocoder's answer geo (ok = TRUE):
\* the fields of self after the call.
apply_geocoding(self, geo) ==
  [self EXCEPT !.neighborhood = IF TruthyObject(geo.neighborhood)
                                THEN geo.neighborhood ELSE @,
               !.latitude = Some(geo.latitude),
               !.longitude = Some(geo.longitude)]

\* The Neighborhood table after apply_geocoding's get-or-create.
NeighborhoodsAfter(geo) ==
  IF TruthyObject(geo.neighborhood)
  THEN neighborhoods \cup {geo.neighborhood[1]}
  ELSE neighborhoods

\* Vendor.save of an instance with primary key pk (0: not yet stored)
\* whose address and approved fields were set by the caller.
Save(pk, address, approved) ==
  LET stored == IF pk = 0 THEN NewVendor ELSE vendors[pk]
      self == [stored EXCEPT !.address = address, !.approved = approved]
      orig_address == IF pk # 0 THEN vendors[pk].address ELSE None
      geocodes == (orig_address # self.address) \/ needs_geocoding(self)
      geo == geocode_address(self.address)
      saved == IF geocodes THEN apply_geocoding(self, geo) ELSE self
      call == [NoLast EXCEPT !.op = "save", !.model = "Vendor", !.pk = pk,
                             !.address = address, !.orig = orig_address,
                             !.geocoded = geocodes,
                             !.geo = IF geocodes THEN geo ELSE GeocodeFailure]
  IN  /\ pk = 0 => Len(vendors) < MaxVendors
      /\ IF geocodes /\ ~geo.ok
         THEN /\ last' = [call EXCEPT !.status = "raised", !.error = "GeocodeError"]
              /\ UNCHANGED <<vendors, neighborhoods>>
         ELSE /\ vendors' = IF pk = 0 THEN Append(vendors, saved)
                            ELSE [vendors EXCEPT ![pk] = saved]
              /\ neighborhoods' = IF geocodes THEN NeighborhoodsAfter(geo)
                                  ELSE neighborhoods
              /\ last' = [call EXCEPT !.status = "returned",
                                      !.pk = IF pk = 0 THEN Len(vendors) + 1 ELSE pk]
      /\ UNCHANGED <<reviews, logged>>

VendorSave ==
  \E pk \in 0..Len(vendors), address \in {None} \cup {Some(a) : a \in VendorAddresses},
     approved \in BOOLEAN :
    Save(pk, address, approved)

\* ---------------------------------------------------------------- managers
Range(s) == {s[i] : i \in 1..Len(s)}

\* django.db.models.Manager.get_query_set: every row of the table.
Manager_get_query_set(table) == [i \in 1..Len(table) |-> i]

\* QuerySet.filter(approved=flag)
FilterApproved(table, qs, flag) ==
  LET keep(pk) == table[pk].approved = flag
  IN  SelectSeq(qs, keep)

\* ApprovedVendorManager.get_query_set
ApprovedVendorManager_get_query_set ==
  FilterApproved(vendors, Manager_get_query_set(vendors), TRUE)

\* ApprovedReviewManager.get_query_set
ApprovedReviewManager_get_query_set ==
  FilterApproved(reviews, Manager_get_query_set(reviews), TRUE)

\* self.get_query_set() for Vendor.objects / Vendor.approved_objects
VendorManager_get_query_set(manager) ==
  IF manager = "approved_objects" THEN ApprovedVendorManager_get_query_set
  ELSE Manager_get_query_set(vendors)

\* self.get_query_set() for Review.objects / Review.approved_objects
ReviewManager_get_query_set(manager) ==
  IF manager = "approved_objects" THEN ApprovedReviewManager_get_query_set
  ELSE Manager_get_query_set(reviews)

\* VendorManager.pending_approval
VendorManager_pending_approval(manager) ==
  FilterApproved(vendors, Manager_get_query_set(vendors), FALSE)

\* ReviewManager.pending_approval
ReviewManager_pending_approval(manager) ==
  FilterApproved(reviews, ReviewManager_get_query_set(manager), FALSE)

VendorPendingApproval ==
  \E manager \in Managers :
    /\ last' = [NoLast EXCEPT !.op = "pending_approval", !.model = "Vendor",
                  !.manager = manager, !.status = "returned",
                  !.pending = Range(VendorManager_pending_approval(manager))]
    /\ UNCHANGED <<vendors, neighborhoods, reviews, logged>>

ReviewPendingApproval ==
  \E manager \in Managers :
    /\ last' = [NoLast EXCEPT !.op = "pending_approval", !.model = "Review",
                  !.manager = manager, !.status = "returned",
                  !.pending = Range(ReviewManager_pending_approval(manager))]
    /\ UNCHANGED <<vendors, neighborhoods, reviews, logged>>

\* ----------------------------------------------------------------- Review
\* Review.save (Django's Model.save) of a new review (pk = 0) or of a stored
\* one whose approved field the caller set.
ReviewSave ==
  \E pk \in 0..Len(reviews), approved \in BOOLEAN :
    /\ pk = 0 => Len(reviews) < MaxReviews
    /\ reviews' = IF pk = 0 THEN Append(reviews, [approved |-> approved])
                  ELSE [reviews EXCEPT ![pk] = [approved |-> approved]]
    /\ last' = [NoLast EXCEPT !.op = "save", !.model = "Review",
                  !.pk = IF pk = 0 THEN Len(reviews) + 1 ELSE pk,
                  !.status = "returned"]
    /\ UNCHANGED <<vendors, neighborhoods, logged>>

NextApproval ==
  \/ VendorSave
  \/ ReviewSave
  \/ VendorPendingApproval
  \/ ReviewPendingApproval

SpecApproval == Init /\ [][NextApproval]_vars

\* --------------------------------------------------------- address_search
\* Python truthiness of initial_queryset: None and an empty queryset are false.
TruthyPool(pool) == pool # None /\ pool[1] # {}

\* QuerySet.filter(id__in=initial_queryset)
FilterIdIn(qs, ids) ==
  LET keep(pk) == pk \in ids
  IN  SelectSeq(qs, keep)

\* QuerySet.filter(latitude__gte=, latitude__lte=, longitude__gte=,
\* longitude__lte=): a comparison with a NULL column is not true.
FilterInBox(qs, box) ==
  LET keep(pk) ==
        /\ vendors[pk].latitude # None
        /\ vendors[pk].longitude # None
        /\ vendors[pk].latitude[1] >= box[1]
        /\ vendors[pk].latitude[1] <= box[2]
        /\ vendors[pk].longitude[1] >= box[3]
        /\ vendors[pk].longitude[1] <= box[4]
  IN  SelectSeq(qs, keep)

\* zip(vendors_in_box, vendor_distances)
Zip(a, b) ==
  LET n == IF Len(a) <= Len(b) THEN Len(a) ELSE Len(b)
  IN  [i \in 1..n |-> <<a[i], b[i]>>]

\* key=lambda pair: pair[1][1]
DistanceKey(pair) == pair[2][2]

\* Stable insertion of pair into a list sorted by DistanceKey.
InsertByDistance(pair, sorted) ==
  LET k == Cardinality({i \in 1..Len(sorted) :
                          DistanceKey(sorted[i]) <= DistanceKey(pair)})
  IN  SubSeq(sorted, 1, k) \o <<pair>> \o SubSeq(sorted, k + 1, Len(sorted))

\* The pairs left as zip produced them.
SortedByDistance_Unsorted(pairs) == pairs

RECURSIVE SortedByDistance(_)
\* sorted(vendor_pairs, key=lambda pair: pair[1][1]): stable, ascending.
SortedByDistance(pairs) ==
  IF pairs = <<>> THEN <<>>
  ELSE InsertByDistance(pairs[Len(pairs)],
                        SortedByDistance(SubSeq(pairs, 1, Len(pairs) - 1)))

\* The admission test with < in the place of <=.
WithinRadius_Strict(pair) ==
  FracLess(meters_to_miles(DistanceKey(pair)), SearchRadius)

\* lambda pair: geocode.meters_to_miles(pair[1][1]) <= 0.75
WithinRadius(pair) ==
  FracLeq(meters_to_miles(DistanceKey(pair)), SearchRadius)

\* The candidate set narrowed whenever a pool object is passed.
CandidateVendors_WhenSupplied(manager, pool) ==
  IF pool # None
  THEN FilterIdIn(VendorManager_get_query_set(manager), pool[1])
  ELSE VendorManager_get_query_set(manager)

\* if initial_queryset: vendors = self.filter(id__in=initial_queryset)
\* else: vendors = self
CandidateVendors(manager, pool) ==
  IF TruthyPool(pool)
  THEN FilterIdIn(VendorManager_get_query_set(manager), pool[1])
  ELSE VendorManager_get_query_set(manager)

\* VendorManager.address_search: what the call gives back, with the
\* intermediate lists vendors_in_box and sorted_vendor_pairs.
address_search(manager, query, pool) ==
  LET candidates == CandidateVendors(manager, pool)
      geocode_result == geocode_address(query)
      point_a == <<geocode_result.latitude, geocode_result.longitude>>
      box == bounding_box_offsets(point_a, SearchRadius)
      vendors_in_box == FilterInBox(candidates, box)
      vendor_distances ==
        distances(point_a,
                  [i \in 1..Len(vendors_in_box) |->
                     <<vendors[vendors_in_box[i]].latitude[1],
                       vendors[vendors_in_box[i]].longitude[1]>>])
      vendor_pairs == Zip(vendors_in_box, vendor_distances)
      sorted_vendor_pairs == SortedByDistance(vendor_pairs)
      vendor_matches == SelectSeq(sorted_vendor_pairs, WithinRadius)
  IN  IF ~geocode_result.ok
      THEN [status |-> "raised", error |-> "GeocodeError", vendors |-> <<>>,
            inbox |-> <<>>, sorted |-> <<>>, geo |-> geocode_result]
      ELSE [status |-> "returned", error |-> "",
            vendors |-> [i \in 1..Len(vendor_matches) |-> vendor_matches[i][1]],
            inbox |-> vendors_in_box,
            sorted |-> [i \in 1..Len(sorted_vendor_pairs) |->
                          sorted_vendor_pairs[i][1]],
            geo |-> geocode_result]

\* The querysets a caller can pass as initial_queryset.
Pools == {None} \cup {Some(ids) : ids \in SUBSET (1..Len(vendors))}

Queries == {Some(a) : a \in QueryAddresses}

AddressSearch ==
  \E manager \in Managers, query \in Queries, pool \in Pools :
    /\ last' = address_search(manager, query, pool)
                 @@ [NoLast EXCEPT !.op = "address_search", !.model = "Vendor",
                       !.manager = manager, !.query = query, !.pool = pool]
        /\ UNCHANGED <<vendors, neighborhoods, reviews, logged>>

NextAddress ==
  \/ VendorSave
  \/ AddressSearch

SpecAddress == Init /\ [][NextAddress]_vars

\* ------------------------------------------------------------------ search
\* The attributes a VendorManager instance has: the methods the class
\* defines and those it inherits from django.db.models.Manager.  name_search
\* and tags_search exist only as comments.
VendorManagerAttributes ==
  {"pending_approval", "address_search", "search",
   "get_query_set", "filter", "all"}

\* search.get_ranks: (score, strategy) pairs, most likely strategy first;
\* the fixed default order.
get_ranks(query) == << <<1, "name">>, <<1, "tags">>, <<1, "address">> >>

Raised(error) == [status |-> "raised", error |-> error, vendors |-> <<>>]

Returned(vs) == [status |-> "returned", error |-> "", vendors |-> vs]

\* VendorManager.search after tracking.log_query has returned: the dict of
\* the three searches, then the merge over initial_queryset.
SearchAfterLog(manager, query, pool) ==
  IF "name_search" \notin VendorManagerAttributes
  THEN Raised("AttributeError")
  ELSE IF address_search(manager, query, pool).status = "raised"
  THEN Raised("GeocodeError")
  ELSE IF "tags_search" \notin VendorManagerAttributes
  THEN Raised("AttributeError")
  ELSE IF pool = None
  THEN Raised("TypeError")    \* for vendor in None
  ELSE IF pool[1] = {}
  THEN Returned(<<>>)
  ELSE Raised("TypeError")    \* searches['address'] is a list: ['vendors']

\* VendorManager.search: log_query raises (logRaises) or writes its row.
search(manager, query, pool, logRaises) ==
  IF logRaises THEN Raised("LogWriteError")
  ELSE SearchAfterLog(manager, query, pool)

Search ==
  \E manager \in Managers, query \in Queries, pool \in Pools,
     logRaises \in BOOLEAN :
    /\ logRaises \/ logged < MaxLog
    /\ logged' = IF logRaises THEN logged ELSE logged + 1
    /\ last' = search(manager, query, pool, logRaises)
                 @@ [NoLast EXCEPT !.op = "search", !.model = "Vendor",
                       !.manager = manager, !.query = query, !.pool = pool,
                       !.geo = geocode_address(query),
                       !.logRaised = logRaises]
    /\ UNCHANGED <<vendors, neighborhoods, reviews>>

NextSearch ==
  \/ VendorSave
  \/ Search

SpecSearch == Init /\ [][NextSearch]_vars

NextStore == VendorSave

SpecStore == Init /\ [][NextStore]_vars

\* The whole program: every operation, in any order.
Next ==
  \/ VendorSave
  \/ ReviewSave
  \/ VendorPendingApproval
  \/ ReviewPendingApproval
  \/ AddressSearch
  \/ Search

Spec == Init /\ [][Next]_vars

\* ----------------------------------------------------------------- claims
IsCall(op, model) == last.op = op /\ last.model = model

\* The point the last call's query was geocoded to.
QueryPoint == <<last.geo.latitude, last.geo.longitude>>

\* Distance (thousandths of a meter) from the query point to stored vendor pk.
DistanceTo(pk) ==
  Meters(QueryPoint, <<vendors[pk].latitude[1], vendors[pk].longitude[1]>>)

\* 0.75 miles in thousandths of a meter is 3 * 1609344 / 4.
AtMostRadius(pk) == 4 * DistanceTo(pk) <= 3 * ThousandthsOfMeterPerMile

NoDuplicates(seq) == \A i, j \in 1..Len(seq) : seq[i] = seq[j] => i = j

\* C1: when the geocoder cannot resolve the query (and logging succeeded),
\* search still completes: it returns a vendor sequence, it does not raise.
C1_GeocodeFailureNotRaised ==
  (IsCall("search", "Vendor") /\ ~last.logRaised /\ ~last.geo.ok)
    => last.status = "returned"

\* C2: search returns a sequence of distinct members of the candidate pool
\* that contains every pool member the address strategy matched.
C2_ResultIsPoolFilteredByUnion ==
  (IsCall("search", "Vendor") /\ ~last.logRaised /\ last.geo.ok
     /\ last.pool # None)
    => /\ last.status = "returned"
       /\ Range(last.vendors) \subseteq last.pool[1]
       /\ NoDuplicates(last.vendors)
       /\ Range(address_search(last.manager, last.query, last.pool).vendors)
            \cap last.pool[1] \subseteq Range(last.vendors)

\* C3: a vendor that survived the bounding-box prefilter is in the result of
\* address_search exactly when its distance from the query point is at most
\* 0.75 miles, and nothing else is in the result.
C3_DistanceTestDecidesAdmission ==
  (IsCall("address_search", "Vendor") /\ last.status = "returned")
    => /\ \A pk \in Range(last.inbox) :
            pk \in Range(last.vendors) <=> AtMostRadius(pk)
       /\ Range(last.vendors) \subseteq Range(last.inbox)

\* A vendor at exactly 0.75 miles is returned while another vendor inside
\* the box is turned away by the distance test.
C3_Witness ==
  /\ IsCall("address_search", "Vendor")
  /\ last.status = "returned"
  /\ \E pk \in Range(last.vendors) :
       4 * DistanceTo(pk) = 3 * ThousandthsOfMeterPerMile
  /\ \E pk \in Range(last.inbox) : pk \notin Range(last.vendors)

\* C4: the result of address_search is in non-decreasing order of distance,
\* and it is the sorted list with the vendors beyond the radius struck out.
C4_NearestFirst ==
  (IsCall("address_search", "Vendor") /\ last.status = "returned")
    => /\ \A i, j \in 1..Len(last.vendors) :
            i < j => DistanceTo(last.vendors[i]) <= DistanceTo(last.vendors[j])
       /\ LET survives(pk) == pk \in Range(last.vendors)
          IN  last.vendors = SelectSeq(last.sorted, survives)

\* Two vendors are returned nearest first against their order of creation.
C4_Witness ==
  /\ IsCall("address_search", "Vendor")
  /\ last.status = "returned"
  /\ Len(last.vendors) = 2
  /\ last.vendors[1] > last.vendors[2]
  /\ DistanceTo(last.vendors[1]) < DistanceTo(last.vendors[2])

\* C5: with a pool supplied (also an empty one), address_search returns
\* only members of that pool.
C5_ResultWithinSuppliedPool ==
  (IsCall("address_search", "Vendor") /\ last.status = "returned"
     /\ last.pool # None)
    => Range(last.vendors) \subseteq last.pool[1]

\* C6: when log_query raises, search returns what it returns when logging
\* succeeds.
C6_LogFailureNotRaised ==
  (IsCall("search", "Vendor") /\ last.logRaised)
    => /\ last.status = "returned"
       /\ last.vendors
            = search(last.manager, last.query, last.pool, FALSE).vendors

\* C7: when the address strategy succeeds, search returns a sequence in
\* which the proximity matches are in non-decreasing order of distance.
C7_SearchKeepsDistanceOrder ==
  (IsCall("search", "Vendor") /\ ~last.logRaised /\ last.geo.ok)
    => /\ last.status = "returned"
       /\ LET near == Range(address_search(last.manager, last.query,
                                           last.pool).vendors)
          IN  \A i, j \in 1..Len(last.vendors) :
                (i < j /\ last.vendors[i] \in near /\ last.vendors[j] \in near)
                  => DistanceTo(last.vendors[i]) <= DistanceTo(last.vendors[j])

\* C8: every stored vendor has latitude and longitude both present or both
\* absent.
C8_CoordinatesPaired ==
  \A pk \in 1..Len(vendors) :
    (vendors[pk].latitude = None) <=> (vendors[pk].longitude = None)

\* A save whose address the geocoder did not resolve has just been refused,
\* with one stored vendor geocoded and another without coordinates.
C8_Witness ==
  /\ IsCall("save", "Vendor")
  /\ last.status = "raised"
  /\ last.pk # 0
  /\ \E pk \in 1..Len(vendors) :
       vendors[pk].latitude # None /\ vendors[pk].longitude # None
  /\ \E pk \in 1..Len(vendors) :
       vendors[pk].latitude = None /\ vendors[pk].longitude = None

\* The rows of a model's table that are not approved.
Unapproved(model) ==
  IF model = "Vendor"
  THEN {pk \in 1..Len(vendors) : ~vendors[pk].approved}
  ELSE {pk \in 1..Len(reviews) : ~reviews[pk].approved}

\* C9: pending_approval returns exactly the unapproved rows, on either
\* manager of Vendor and of Review.
C9_PendingApprovalIsUnapproved ==
  last.op = "pending_approval" => last.pending = Unapproved(last.model)

\* C10: after a save whose address differs from the stored one, latitude,
\* longitude and neighborhood are the ones the geocoder returned.
C10_GeocodedFieldsReplaced ==
  (IsCall("save", "Vendor") /\ last.status = "returned"
     /\ last.orig # last.address)
    => /\ vendors[last.pk].latitude = Some(last.geo.latitude)
       /\ vendors[last.pk].longitude = Some(last.geo.longitude)
       /\ vendors[last.pk].neighborhood = last.geo.neighborhood

====
